---------------------------- MODULE Spec2Model ----------------------------
(***************************************************************************)
(* rustywin: a filtering proxy for the X11 protocol.                       *)
(*                                                                         *)
(* The module models                                                       *)
(*   - the request framer `request` and the opcode decoders of analyze.rs, *)
(*   - filter_buffer of analyze.rs, one loop iteration per step,           *)
(*   - the relay worker client_message_loop and write_all_nonblock of      *)
(*     socketloop.rs,                                                      *)
(*   - the accept thread: accept_loop, handle_client and select_on_vec of  *)
(*     socketloop.rs, and its poll of the control channel (ipc.rs),        *)
(*   - the main thread's wait in run_unix_socket_loop (socketloop.rs),     *)
(*   - the startup of concurrent proxies: the cleanup registry, the scan   *)
(*     of /tmp/.X11-unix/ and the choice of the shadow display (socket.rs).*)
(*                                                                         *)
(* Bytes are naturals in 0..255, buffers are sequences of bytes.  The u16  *)
(* and u32 arithmetic of the framer keeps its width: a u32 is a record     *)
(* [hi, lo] of two 16-bit halves, so that values up to 2^32 - 1 are exact. *)
(* Arithmetic is the wrapping arithmetic of the release profile, at the    *)
(* width of the Rust type (a build with overflow checks panics where the   *)
(* model wraps).                                                           *)
(***************************************************************************)
EXTENDS Integers, Sequences, FiniteSets, TLC

VARIABLES
    \* ---- one call of filter_buffer (analyze.rs)
    fbuf,              \* `buffer`: the input of the call
    work,              \* `work_buffer`: the part of buffer still to frame
    out_accept,        \* `out_accept_buff`
    out_reject,        \* `out_reject_buff`
    fpc,               \* "idle" | "loop" | "done"
    frames,            \* history: <<[off, len, verdict]>> of the requests framed
    deny,              \* opcodes a policy override denies; {} is the repository's policy
    \* ---- the accept thread (socketloop.rs accept_loop, ipc.rs)
    child_fd,          \* what the liveness fd is: "stderr" (of the spawned child) | "control" (supervisor socket)
    apc,               \* "idle" | "recv" | "accept" | "handle_client" | "select" | "exited" | "panicked"
    pids,              \* `child_pid_vec`: Vec of PIDs, shared under a mutex
    recvd,             \* what recv returned in the try_receive_pids that just ran; [kind |-> "none"] once the loop has gone on
    accepted,          \* what listen_socket.accept() returned in this pass of the loop: "none" | "Ok" | "WouldBlock" | "Err"
    \* ---- the main thread (socketloop.rs run_unix_socket_loop) and the far end of child_fd
    mpc,               \* "wait" (child.wait()) | "join" (thread.join()) | "returned"
    child_gone,        \* the far end of child_fd is closed: the child exited, or the supervisor closed the control socket
    \* ---- one relay worker (socketloop.rs client_message_loop)
    wpc,               \* position of the worker in its loop
    client_pid,        \* peer PID of the client stream
    buffer,            \* `buffer`: its first BufLen bytes; the rest, up to BUFFER_SIZE, is never written and stays 0
    read,              \* `read`: size of the last read
    read_result,       \* what the last stream.read returned: "none" | "data" | "eof" (Ok(0)) | "wouldblock" | "error"
    filtered,          \* whether the last client slice went through filter_buffer
    write_buff,        \* bytes write_all_nonblock still has to write
    handed,            \* bytes handed to the write_all_nonblock call in progress
    sent,              \* bytes that call has written to its stream so far
    write_result,      \* result of the last write_all_nonblock: "none" | "Ok" | "WriteZero" | "Err"
    dumpfile,          \* whether a dump file is configured
    dump,              \* the last write to the dump file (the modelled bytes of it)
    \* ---- the two streams of the worker's connection, as their far ends see them
    recording,         \* whether the four histories below are kept
    client_in,         \* the bytes the worker has read from the client stream
    server_out,        \* the bytes the server stream has received from the worker
    server_in,         \* the bytes the worker has read from the server stream
    client_out,        \* the bytes the client stream has received from the worker
    \* ---- startup of the proxies of one user (socket.rs)
    registry,          \* ~/.rustywin_sockets: its lines, each the sequence of its whitespace-separated tokens
    x11dir,            \* the file names in /tmp/.X11-unix/
    lock,              \* the proxy holding the flock on the registry, 0 for none
    original_server_num, \* x11_conn.server_num(): the display number of the upstream server
    spc,               \* position of each proxy in its startup
    locked,            \* whether the last flock of each proxy returned Ok
    file_read,         \* the lines each proxy's cleanup has read from the registry
    lines_not_cleaned, \* `lines_not_cleaned` of each proxy's cleanup
    conn               \* the SocketConnection setup_unix_socket returned to each proxy

filter_vars == <<fbuf, work, out_accept, out_reject, fpc, frames>>
accept_vars == <<child_fd, apc, pids, recvd, accepted>>
main_vars == <<mpc, child_gone>>
worker_vars == <<wpc, client_pid, buffer, read, read_result, filtered, write_buff, handed,
                 sent, write_result, dumpfile, dump>>
stream_vars == <<recording, client_in, server_out, server_in, client_out>>
startup_vars == <<registry, x11dir, lock, original_server_num, spc, locked,
                  file_read, lines_not_cleaned, conn>>
vars == <<deny, startup_vars, filter_vars, accept_vars, main_vars, worker_vars,
          stream_vars>>

----------------------------------------------------------------------------
(* Bounds of the model *)

\* filter_buffer inputs are made of at most MaxWords 4-byte words
MaxWords == 4
\* PIDs are 0..MaxPid
MaxPid == 1

----------------------------------------------------------------------------
(* Bytes, sequences, fixed-width integers *)

Byte == 0..255

\* s[from..] of a Rust slice (0-based from)
Drop(s, n) == SubSeq(s, n + 1, Len(s))
\* s[0..n]
Take(s, n) == SubSeq(s, 1, n)

\* nom le_u16 of the two bytes at 0-based offset off
le_u16(s, off) == s[off + 1] + 256 * s[off + 2]

\* nom le_u32 of the four bytes at 0-based offset off, as a u32 [hi, lo]
le_u32(s, off) == [lo |-> le_u16(s, off), hi |-> le_u16(s, off + 2)]

\* a u32 that is known to be below 2^31, as a number
U32Small(u) == u.hi < 32768
U32Nat(u) == u.hi * 65536 + u.lo
NatU32(n) == [lo |-> n % 65536, hi |-> n \div 65536]

\* 4 * u in u32: the wrapped product and whether it overflowed
U32Mul4(u) ==
    LET lo4 == 4 * u.lo
        hi4 == 4 * u.hi + (lo4 \div 65536)
    IN  [val |-> [lo |-> lo4 % 65536, hi |-> hi4 % 65536],
         overflow |-> hi4 >= 65536]

\* u - k in u32, for a small constant k: the wrapped difference and whether
\* it underflowed
U32SubSmall(u, k) ==
    IF u.lo >= k THEN [val |-> [lo |-> u.lo - k, hi |-> u.hi], overflow |-> FALSE]
    ELSE IF u.hi >= 1
         THEN [val |-> [lo |-> u.lo + 65536 - k, hi |-> u.hi - 1], overflow |-> FALSE]
         ELSE [val |-> [lo |-> u.lo + 65536 - k, hi |-> 65535], overflow |-> TRUE]

\* (u as usize) <= n for a buffer length n
U32LeNat(u, n) == U32Small(u) /\ U32Nat(u) <= n

----------------------------------------------------------------------------
(* analyze.rs: the framer *)

Incomplete == [tag |-> "Incomplete"]

\* tag!(b"\x00\x00") on the input left after opcode and data byte: nom
\* compares the bytes present, an unequal byte is an Error, too few bytes
\* with no unequal one is Incomplete
TagZeroZero(i) ==
    IF (Len(i) >= 3 /\ i[3] # 0) \/ (Len(i) >= 4 /\ i[4] # 0) THEN "Error"
    ELSE IF Len(i) < 4 THEN "Incomplete"
    ELSE "Ok"

\* request_big with the header bytes not subtracted from the count of the
\* bytes to take
request_big_nosub(i) ==
    IF Len(i) < 8 THEN Incomplete
    ELSE LET length_4b == le_u32(i, 4)
             prod == U32Mul4(length_4b)
         IN  IF ~U32LeNat(prod.val, Len(i) - 8) THEN Incomplete
             ELSE [tag |-> "Ok", opcode |-> i[1], datab |-> i[2],
                   length |-> prod.val, big |-> TRUE,
                   data |-> SubSeq(i, 9, 8 + U32Nat(prod.val))]

\* request_big whose count of the bytes to take stops at zero instead of
\* wrapping below it
request_big_saturating(i) ==
    IF Len(i) < 8 THEN Incomplete
    ELSE LET length_4b == le_u32(i, 4)
             prod == U32Mul4(length_4b)
             sub == U32SubSmall(prod.val, 8)
             cnt == IF sub.overflow THEN NatU32(0) ELSE sub.val
         IN  IF ~U32LeNat(cnt, Len(i) - 8) THEN Incomplete
             ELSE [tag |-> "Ok", opcode |-> i[1], datab |-> i[2],
                   length |-> prod.val, big |-> TRUE,
                   data |-> SubSeq(i, 9, 8 + U32Nat(cnt))]

\* first branch of alt!: BIG-REQUESTS, 16-bit length field zero
\* take!(length_4b * 4 - (4 + 2 + 1 + 1)) in u32, length: 4 * length_4b
request_big(i) ==
    IF Len(i) < 8 THEN Incomplete
    ELSE LET length_4b == le_u32(i, 4)
             prod == U32Mul4(length_4b)
             cnt == U32SubSmall(prod.val, 8)
         IN  IF ~U32LeNat(cnt.val, Len(i) - 8) THEN Incomplete
             ELSE [tag |-> "Ok", opcode |-> i[1], datab |-> i[2],
                   length |-> prod.val, big |-> TRUE,
                   data |-> SubSeq(i, 9, 8 + U32Nat(cnt.val))]

\* request_normal with the 4 header bytes counted on top of the length field
request_normal_extra(i) ==
    IF Len(i) < 4 THEN Incomplete
    ELSE LET length_4b == le_u16(i, 2)
             prod == 4 * length_4b
             cnt == ((prod % 65536) + 65536 - 4) % 65536
         IN  IF cnt > Len(i) - 4 THEN Incomplete
             ELSE [tag |-> "Ok", opcode |-> i[1], datab |-> i[2],
                   length |-> NatU32(prod + 4), big |-> FALSE,
                   data |-> SubSeq(i, 5, 4 + cnt)]

\* second branch of alt!: normal request
\* take!(length_4b * 4 - (2 + 1 + 1)) in u16, length: 4 * length_4b as u32
request_normal(i) ==
    IF Len(i) < 4 THEN Incomplete
    ELSE LET length_4b == le_u16(i, 2)
             prod == 4 * length_4b
             cnt == ((prod % 65536) + 65536 - 4) % 65536
         IN  IF cnt > Len(i) - 4 THEN Incomplete
             ELSE [tag |-> "Ok", opcode |-> i[1], datab |-> i[2],
                   length |-> NatU32(prod), big |-> FALSE,
                   data |-> SubSeq(i, 5, 4 + cnt)]

\* named!(request): alt! tries the second branch only when the first
\* returned an Error (the tag did not match); Incomplete is returned as is
request(i) ==
    IF Len(i) < 2 THEN Incomplete
    ELSE CASE TagZeroZero(i) = "Incomplete" -> Incomplete
           [] TagZeroZero(i) = "Ok" -> request_big(i)
           [] OTHER -> request_normal(i)


----------------------------------------------------------------------------
(* analyze.rs: the opcode decoders *)

\* enum Opcode
ChangeWindowAttributes == 2
InternAtom == 16
ChangeProperty == 18
GetProperty == 20
GrabButton == 28
QueryExtension == 98

Opcode == {ChangeWindowAttributes, InternAtom, ChangeProperty, GetProperty,
           GrabButton, QueryExtension}

\* U+FFFD REPLACEMENT CHARACTER
ReplacementChar == 65533

\* String::from_utf8_lossy, as a sequence of code points.  An ASCII byte is
\* its own code point.  A byte that cannot start or continue a sequence here
\* (0x80..0xC1 with no lead byte before it, 0xF5..0xFF) is replaced by
\* U+FFFD, one per byte.  The inputs of the model hold no lead byte
\* 0xC2..0xF4, so no multi-byte sequence has to be decoded.
from_utf8_lossy(bytes) ==
    [k \in 1..Len(bytes) |-> IF bytes[k] < 128 THEN bytes[k] ELSE ReplacementChar]

\* intern_atom with the name taken right after name_length, the 2-byte pad
\* not skipped
intern_atom_nopad(data) ==
    IF Len(data) < 8 THEN Incomplete
    ELSE LET name_length == le_u16(data, 4)
         IN  IF Len(data) - 8 < name_length THEN Incomplete
             ELSE [tag |-> "Ok",
                   only_if_exists |-> (data[2] = 1),
                   name_length |-> name_length,
                   name |-> from_utf8_lossy(SubSeq(data, 7, 6 + name_length))]

\* named!(intern_atom): opcode, only_if_exists, length, name_length, pad,
\* take!(name_length)
intern_atom(data) ==
    IF Len(data) < 8 THEN Incomplete
    ELSE LET name_length == le_u16(data, 4)
         IN  IF Len(data) - 8 < name_length THEN Incomplete
             ELSE [tag |-> "Ok",
                   only_if_exists |-> (data[2] = 1),
                   name_length |-> name_length,
                   name |-> from_utf8_lossy(SubSeq(data, 9, 8 + name_length))]

\* named!(getproperty): 4 header bytes and five le_u32
getproperty(data) ==
    IF Len(data) < 24 THEN Incomplete
    ELSE [tag |-> "Ok", delete |-> (data[2] = 1),
          window |-> le_u32(data, 4), property |-> le_u32(data, 8),
          atom_prop_type |-> le_u32(data, 12), offset |-> le_u32(data, 16),
          length |-> le_u32(data, 20)]

\* named!(queryextension)
queryextension(data) ==
    IF Len(data) < 8 THEN Incomplete
    ELSE LET name_length == le_u16(data, 4)
         IN  IF Len(data) - 8 < name_length THEN Incomplete
             ELSE [tag |-> "Ok", name_length |-> name_length,
                   name |-> from_utf8_lossy(SubSeq(data, 9, 8 + name_length))]

\* named!(changeproperty): take!(data_length) after 24 bytes
changeproperty(data) ==
    IF Len(data) < 24 THEN Incomplete
    ELSE LET data_length == le_u32(data, 20)
         IN  IF ~U32LeNat(data_length, Len(data) - 24) THEN Incomplete
             ELSE [tag |-> "Ok", mode |-> data[2],
                   window |-> le_u32(data, 4), property |-> le_u32(data, 8),
                   prop_type |-> le_u32(data, 12), format |-> data[17],
                   data_length |-> data_length,
                   data |-> SubSeq(data, 25, 24 + U32Nat(data_length))]

\* named!(grabbutton): take!(length - 4 + 2 + 2) in u16, with length the
\* length field: length - 4 wraps for a length field below 4
grabbutton(data) ==
    IF Len(data) < 8 THEN Incomplete
    ELSE LET length == le_u16(data, 2)
             cnt == (length + 65536 - 4 + 2 + 2) % 65536
         IN  IF Len(data) - 8 < cnt THEN Incomplete
             ELSE [tag |-> "Ok", owner_events |-> data[2],
                   window |-> le_u32(data, 4)]

\* The decode analyze_request_opcode runs for the opcode, on `data`; "None"
\* for an opcode that has no decoder
decode(opcode, data) ==
    CASE opcode = InternAtom -> intern_atom(data)
      [] opcode = GetProperty -> getproperty(data)
      [] opcode = QueryExtension -> queryextension(data)
      [] opcode = ChangeProperty -> changeproperty(data)
      [] opcode = GrabButton -> grabbutton(data)
      [] OTHER -> [tag |-> "None"]

\* analyze_request_opcode that denies a request it fails to decode
analyze_request_opcode_strict(header, data) ==
    LET decoded == decode(header.opcode, data)
    IN  IF decoded.tag = "Incomplete" THEN "Denied" ELSE "Allowed"

\* fn analyze_request_opcode: the arm of the opcode prints what it decoded,
\* or the decode error; then Ok(Outcome::Allowed)
analyze_request_opcode(header, data) ==
    LET decoded == decode(header.opcode, data)
    IN  CASE decoded.tag = "Ok" -> "Allowed"
          [] decoded.tag = "Incomplete" -> "Allowed"
          [] OTHER -> "Allowed"

\* The verdict filter_buffer matches on.  dn is the set of opcodes a policy
\* override denies; the repository's policy is dn = {}.
decide(header, data, dn) ==
    LET decision == analyze_request_opcode(header, data)
    IN  IF decision = "Allowed" /\ header.opcode \in dn THEN "Denied" ELSE decision

----------------------------------------------------------------------------
(* analyze.rs: filter_buffer *)

\* reject_rest that stops without keeping the bytes left
reject_rest_lost(st) == [st EXCEPT !.pc = "done"]

\* reject_rest that also appends the bytes already accepted to rejected
reject_rest_again(st) ==
    [st EXCEPT !.reject = st.reject \o st.accept \o st.work, !.pc = "done"]

\* out_reject_buff.extend_from_slice(&work_buffer); break
reject_rest(st) == [st EXCEPT !.reject = st.reject \o st.work, !.pc = "done"]

\* apply_decision that appends a denied request to neither output
apply_decision_dropdenied(st, decision, n) ==
    CASE decision = "Allowed" ->
           [st EXCEPT !.accept = st.accept \o Take(st.work, n),
                      !.work = Drop(st.work, n)]
      [] decision = "Denied" ->
           [st EXCEPT !.work = Drop(st.work, n)]

\* apply_decision that goes on at the byte after the first byte of the
\* request
apply_decision_byte(st, decision, n) ==
    CASE decision = "Allowed" ->
           [st EXCEPT !.accept = st.accept \o Take(st.work, n),
                      !.work = Drop(st.work, 1)]
      [] decision = "Denied" ->
           [st EXCEPT !.reject = st.reject \o Take(st.work, n),
                      !.work = Drop(st.work, 1)]

\* match decision { Ok(Allowed) => out_accept_buff.extend_from_slice(..),
\* Ok(Denied) => out_reject_buff.extend_from_slice(..) } of the first
\* n = length bytes of work_buffer; work_buffer = &work_buffer[length..]
apply_decision(st, decision, n) ==
    CASE decision = "Allowed" ->
           [st EXCEPT !.accept = st.accept \o Take(st.work, n),
                      !.work = Drop(st.work, n)]
      [] decision = "Denied" ->
           [st EXCEPT !.reject = st.reject \o Take(st.work, n),
                      !.work = Drop(st.work, n)]

\* One pass through `while buffer.len() > 0 { ... }`, test included.
\* st = [work, accept, reject, pc, frames]; buf is `buffer`, the input of
\* the call.  frames records the request the pass framed.
filter_iteration(buf, st, dn) ==
    IF Len(buf) = 0 THEN [st EXCEPT !.pc = "done"]
    ELSE LET req == request(st.work)
         IN  IF req.tag = "Incomplete" THEN reject_rest(st)
             ELSE IF ~U32LeNat(req.length, Len(st.work)) THEN reject_rest(st)
             ELSE LET n == U32Nat(req.length)
                      decision == decide(req, st.work, dn)
                      frame == [off |-> Len(buf) - Len(st.work), len |-> n,
                                verdict |-> decision]
                  IN  [apply_decision(st, decision, n)
                         EXCEPT !.frames = Append(st.frames, frame)]

\* filter_start that starts framing at the second byte of the input
filter_start_midway(buf) ==
    [work |-> Drop(buf, 1), accept |-> <<>>, reject |-> <<>>, pc |-> "loop",
     frames |-> <<>>]

\* let mut work_buffer = &buffer[0..buffer.len()], the two outputs empty
filter_start(buf) ==
    [work |-> buf, accept |-> <<>>, reject |-> <<>>, pc |-> "loop",
     frames |-> <<>>]

RECURSIVE filter_run(_, _, _)
filter_run(buf, st, dn) ==
    IF st.pc # "loop" THEN st
    ELSE filter_run(buf, filter_iteration(buf, st, dn), dn)

\* pub fn filter_buffer(buffer) -> (accepted, rejected)
filter_buffer(buf, dn) ==
    LET st == filter_run(buf, filter_start(buf), dn)
    IN  [accept |-> st.accept, reject |-> st.reject]

----------------------------------------------------------------------------
(* Inputs of filter_buffer *)

\* 4-byte words the input buffers are made of: request headers of both
\* forms, extended unit counts (1, 3 and 2^30 + 2), a length field the
\* u16 product wraps for, name bytes
Words ==
    { <<InternAtom, 0, 1, 0>>,      \* InternAtom, 1 unit
      <<InternAtom, 1, 3, 0>>,      \* InternAtom, only_if_exists, 3 units
      <<3, 0, 0, 0>>,               \* opcode 3 in extended form; 3 units; name_length 3
      <<1, 0, 0, 0>>,               \* opcode 1 in extended form; 1 unit
      <<2, 0, 0, 64>>,              \* 2^30 + 2 units; opcode 2 with length field 0x4000
      <<GrabButton, 0, 1, 0>>,      \* GrabButton, 1 unit
      <<65, 0, 1, 64>>,             \* opcode 65, length field 0x4001: 4 * 0x4001 wraps to 4 in u16
      <<65, 255, 2, 0>> }           \* opcode 65, 2 units; the name bytes "A\xFF"

RECURSIVE Flatten(_)
Flatten(ws) == IF ws = <<>> THEN <<>> ELSE Head(ws) \o Flatten(Tail(ws))

\* every sequence of at most MaxWords words, with up to 3 bytes cut off its end
Inputs ==
    { Take(Flatten(ws), 4 * Len(ws) - cut) :
        ws \in UNION { [1..k -> Words] : k \in 0..MaxWords },
        cut \in 0..3 }

----------------------------------------------------------------------------
(* The call of filter_buffer, one loop iteration per step *)

FilterIdle ==
    /\ fbuf = <<>> /\ work = <<>> /\ out_accept = <<>> /\ out_reject = <<>>
    /\ fpc = "idle" /\ frames = <<>>

\* NProc proxies of one user start concurrently
NProc == 2
Procs == 1..NProc

\* the registry holds at most MaxLines lines when the proxies start
MaxLines == 2

\* the upstream display number is at most MaxDisplay
MaxDisplay == 1

\* no SocketConnection yet
NoConn == [client_display_name |-> <<>>, client_socket_name |-> <<>>,
           server_socket_name |-> <<>>]

\* no proxy is starting: the setup of this proxy has returned
StartupIdle ==
    /\ registry = <<>> /\ x11dir = {} /\ lock = 0 /\ original_server_num = 0
    /\ spc = [p \in Procs |-> "listening"]
    /\ locked = [p \in Procs |-> FALSE]
    /\ file_read = [p \in Procs |-> <<>>]
    /\ lines_not_cleaned = [p \in Procs |-> <<>>]
    /\ conn = [p \in Procs |-> NoConn]

StreamsIdle ==
    /\ recording = FALSE
    /\ client_in = <<>> /\ server_out = <<>>
    /\ server_in = <<>> /\ client_out = <<>>

RelayIdle ==
    /\ child_fd = "control" /\ apc = "idle" /\ pids = <<>>
    /\ recvd = [kind |-> "none"] /\ accepted = "none"
    /\ mpc = "returned" /\ child_gone = FALSE
    /\ wpc = "none" /\ client_pid = 0 /\ buffer = <<>> /\ read = 0
    /\ read_result = "none"
    /\ filtered = FALSE
    /\ write_buff = <<>> /\ handed = <<>> /\ sent = <<>>
    /\ write_result = "none"
    /\ dumpfile = FALSE /\ dump = <<>>
    /\ StreamsIdle
    /\ StartupIdle

\* filter_buffer is entered with any input, under the repository's policy
InitFilter ==
    /\ deny = {}
    /\ fbuf \in Inputs
    /\ work = fbuf /\ out_accept = <<>> /\ out_reject = <<>>
    /\ fpc = "loop" /\ frames = <<>>
    /\ RelayIdle

\* the same under a policy override that denies one opcode (the policy of
\* the mixed allow/deny scenario)
InitFilterOverride ==
    /\ deny \in {{65}, {InternAtom}}
    /\ fbuf \in Inputs
    /\ work = fbuf /\ out_accept = <<>> /\ out_reject = <<>>
    /\ fpc = "loop" /\ frames = <<>>
    /\ RelayIdle

\* one iteration of the loop of filter_buffer
filter_buffer_step ==
    /\ fpc = "loop"
    /\ LET st == filter_iteration(fbuf,
                     [work |-> work, accept |-> out_accept,
                      reject |-> out_reject, pc |-> fpc, frames |-> frames],
                     deny)
       IN  /\ work' = st.work
           /\ out_accept' = st.accept
           /\ out_reject' = st.reject
           /\ fpc' = st.pc
           /\ frames' = st.frames
    /\ UNCHANGED <<fbuf, deny, startup_vars, accept_vars, main_vars, worker_vars, stream_vars>>

NextFilter == filter_buffer_step

FilterSpec == InitFilter /\ [][NextFilter]_vars

FilterOverrideSpec == InitFilterOverride /\ [][NextFilter]_vars

\* no call of filter_buffer yet, under the repository's policy
InitFilterCall ==
    /\ deny = {}
    /\ FilterIdle
    /\ RelayIdle

\* the inputs of the calls whose termination is checked hold at most
\* MaxLiveWords words
MaxLiveWords == 2

LiveInputs ==
    { Take(Flatten(ws), 4 * Len(ws) - cut) :
        ws \in UNION { [1..k -> Words] : k \in 0..MaxLiveWords },
        cut \in 0..3 }

\* filter_buffer is called with any input: the outputs are empty and
\* work_buffer is the whole input
filter_buffer_call ==
    /\ fpc = "idle"
    /\ \E i \in LiveInputs :
         /\ fbuf' = i
         /\ work' = filter_start(i).work
         /\ out_accept' = filter_start(i).accept
         /\ out_reject' = filter_start(i).reject
         /\ frames' = filter_start(i).frames
         /\ fpc' = filter_start(i).pc
    /\ UNCHANGED <<deny, startup_vars, accept_vars, main_vars, worker_vars, stream_vars>>

NextFilterCall == filter_buffer_call \/ filter_buffer_step

\* the call runs on: the thread that called filter_buffer executes the next
\* iteration of its loop
FilterLiveSpec ==
    InitFilterCall /\ [][NextFilterCall]_vars /\ WF_vars(filter_buffer_step)

----------------------------------------------------------------------------
(* ipc.rs: the control channel *)

Pids == 0..MaxPid

\* command bytes: 0 adds, 1 removes, 2 stands for every other value
Cmds == {0, 1, 2}

\* Vec::contains
Contains(v, x) == \E k \in 1..Len(v) : v[k] = x

\* process_pid_message whose removal empties the vector
process_pid_message_clear(cmd, pid, ps) ==
    IF cmd = 0
    THEN IF ~Contains(ps, pid) THEN Append(ps, pid) ELSE ps
    ELSE IF cmd = 1
         THEN <<>>
         ELSE ps

\* fn process_pid_message(cmd, pid, pids)
process_pid_message(cmd, pid, ps) ==
    IF cmd = 0
    THEN IF ~Contains(ps, pid) THEN Append(ps, pid) ELSE ps
    ELSE IF cmd = 1
         THEN SelectSeq(ps, LAMBDA x : x # pid)
         ELSE ps

\* lengths other than 5 that recv returns into the 16-byte buffer: 0 (the
\* supervisor closed its end), a short and a long message
BadLens == {0, 4, 6}

\* What recv(fd, &mut buffer, flags) can return in try_receive_pids: Ok(5)
\* with the bytes of (cmd, pid), Ok(n) for another n, EWOULDBLOCK, another
\* error.  Once the supervisor has closed the control socket recv returns
\* Ok(0).  The stderr pipe of a spawned child is no socket: recv fails with
\* ENOTSOCK.
RecvResults(fd, gone) ==
    IF fd = "control"
    THEN IF gone THEN { [kind |-> "len", n |-> 0] }
         ELSE [kind : {"msg"}, cmd : Cmds, pid : Pids]
              \cup [kind : {"len"}, n : BadLens \ {0}]
              \cup { [kind |-> "wouldblock"], [kind |-> "error"] }
    ELSE { [kind |-> "error"] }

----------------------------------------------------------------------------
(* socketloop.rs: the accept thread *)

\* a receive that goes on to accept() whatever recv returned
try_receive_pids_lenient ==
    /\ apc = "recv"
    /\ \E r \in RecvResults(child_fd, child_gone) :
         /\ recvd' = r
         /\ apc' = "accept"
         /\ pids' = IF r.kind = "msg" THEN process_pid_message(r.cmd, r.pid, pids)
                                      ELSE pids
    /\ UNCHANGED <<child_fd, accepted, deny, startup_vars, filter_vars, main_vars, worker_vars,
                   stream_vars>>

\* accept_loop: ipc::try_receive_pids(child_fd, &mut child_pid_vec.lock().unwrap())
\* A length other than 5 and an error other than EWOULDBLOCK panic, with
\* the mutex of child_pid_vec held: the thread ends and the mutex is poisoned.
try_receive_pids ==
    /\ apc = "recv"
    /\ \E r \in RecvResults(child_fd, child_gone) :
         /\ recvd' = r
         /\ CASE r.kind = "msg" ->
                   /\ pids' = process_pid_message(r.cmd, r.pid, pids)
                   /\ apc' = "accept"
              [] r.kind = "wouldblock" ->
                   /\ apc' = "accept"
                   /\ UNCHANGED pids
              [] OTHER ->
                   /\ apc' = "panicked"
                   /\ UNCHANGED pids
    /\ UNCHANGED <<child_fd, accepted, deny, startup_vars, filter_vars, main_vars, worker_vars,
                   stream_vars>>

\* select_on_vec: the sets handed to select for the fds of fdset_vec; every
\* fd is in r_fdset for Readers, in w_fdset for Writers, in both for
\* ReadersAndWriters, and always in e_fdset
select_on_vec(fdset_vec, socktype) ==
    LET fds == {fdset_vec[k] : k \in 1..Len(fdset_vec)}
    IN  [r_fdset |-> IF socktype \in {"Readers", "ReadersAndWriters"} THEN fds ELSE {},
         w_fdset |-> IF socktype \in {"Writers", "ReadersAndWriters"} THEN fds ELSE {},
         e_fdset |-> fds]

\* select can report fd as writable: a socket when its send buffer has
\* room; the read end of the child's stderr pipe never
Writable(fd) == fd # "stderr"

\* select(None, r_fdset, w_fdset, e_fdset, None) can return Ok: a socket or
\* a pipe becomes readable when its far end writes or closes; no fd of the
\* proxy gets an exceptional condition
select_returns(sets) ==
    \/ sets.r_fdset # {}
    \/ \E fd \in sets.w_fdset : Writable(fd)

\* the mutex of child_pid_vec is poisoned once the accept thread panicked
\* while holding it
Poisoned == apc = "panicked"

\* the bytes of `buffer` the model keeps
ClientSlices ==
    { <<InternAtom, 0, 1, 0, 65>>,  \* a request, then the first byte of the next
      <<2, 0, 0>> }                 \* too short for a header

ServerSlices == { <<1>>, <<9>> }

BufLen == 5

\* the histories of the streams hold at most HistLen bytes
HistLen == 4

\* accept_client that goes on to the select after any accept error
accept_client_stubborn ==
    /\ apc = "accept"
    /\ \/ /\ wpc = "none"
          /\ accepted' = "Ok"
          /\ apc' = "handle_client"
       \/ /\ accepted' \in {"WouldBlock", "Err"}
          /\ apc' = "select"
    /\ recvd' = [kind |-> "none"]
    /\ UNCHANGED <<child_fd, pids, deny, startup_vars, filter_vars, main_vars, worker_vars,
                   stream_vars>>

\* accept_loop: match listen_socket.accept().  Ok((stream, _)) calls
\* handle_client, WouldBlock goes on to the select, any other error breaks
\* out of the loop.  The model follows one worker: a stream is accepted
\* while no worker exists.
accept_client ==
    /\ apc = "accept"
    /\ \/ /\ wpc = "none"
          /\ accepted' = "Ok"
          /\ apc' = "handle_client"
       \/ /\ accepted' = "WouldBlock"
          /\ apc' = "select"
       \/ /\ accepted' = "Err"
          /\ apc' = "exited"
    /\ recvd' = [kind |-> "none"]
    /\ UNCHANGED <<child_fd, pids, deny, startup_vars, filter_vars, main_vars, worker_vars,
                   stream_vars>>

\* handle_client: sockets.send_stream() connects to the original socket;
\* None returns without a worker and the accepted stream is dropped, Some
\* spawns the worker thread.  The worker starts client_message_loop: both
\* streams nonblocking, peer PID from the peer credentials (0 where they
\* are not supported), buffer zeroed.
handle_client ==
    /\ apc = "handle_client"
    /\ \/ \* Some(stream): thread::spawn
          /\ \E p \in Pids : client_pid' = p
          /\ buffer' = [k \in 1..BufLen |-> 0]
          /\ wpc' = "read_client"
          /\ UNCHANGED <<read, read_result, filtered, write_buff, handed, sent,
                         write_result, dumpfile, dump>>
       \/ \* None: return
          UNCHANGED worker_vars
    /\ apc' = "select"
    /\ UNCHANGED <<child_fd, pids, recvd, accepted, deny, startup_vars, filter_vars,
                   main_vars, stream_vars>>

\* accept_loop: select_on_vec on the listening socket and child_fd; the
\* next pass of the loop starts when it returns Ok
accept_select ==
    /\ apc = "select"
    /\ \/ /\ select_returns(select_on_vec(<<"listen", child_fd>>, "ReadersAndWriters"))
          /\ apc' = "recv"
       \/ apc' = "exited"
    /\ accepted' = "none"
    /\ UNCHANGED <<child_fd, pids, recvd, deny, startup_vars, filter_vars, main_vars,
                   worker_vars, stream_vars>>

----------------------------------------------------------------------------
(* socketloop.rs: the relay worker, client_message_loop *)

\* the histories of the streams: a read or a write is appended while they
\* are kept
Record(h, s) == IF recording THEN h \o s ELSE h

\* a history holds at most HistLen bytes
Room(h, s) == recording => Len(h) + Len(s) <= HistLen

\* stream.read(&mut buffer) that returned Ok(Len(s)), Len(s) > 0
ReadInto(s) == s \o Drop(buffer, Len(s))

\* &buffer[0..read]
Slice == Take(buffer, read)

\* the bytes the worker hands to server_stream.write_all_nonblock for a
\* client slice s: filter_on is !pid_vector.contains(&client_pid), fr is
\* filter_buffer(s)
client_write_buff(filter_on, fr, s) == IF filter_on THEN fr.accept ELSE s

\* server_write_buff that passes the server slice through the filter
server_write_buff_filtered(s) == filter_buffer(s, {}).accept

\* the bytes the worker hands to client_stream.write_all_nonblock for a
\* server slice s
server_write_buff(s) == s

\* whether the worker filters a client slice: the test of line 284
filter_on_for(ps, pid) == ~Contains(ps, pid)

\* let read = match client_stream.read(&mut buffer)
cml_read_client ==
    /\ wpc = "read_client"
    /\ \/ \* Ok(size), size > 0
          /\ \E s \in ClientSlices :
               /\ Room(client_in, s)
               /\ buffer' = ReadInto(s)
               /\ read' = Len(s)
               /\ client_in' = Record(client_in, s)
          /\ read_result' = "data"
          /\ wpc' = "handle"
       \/ \* Ok(0) (the peer closed the stream) or WouldBlock: read = 0
          /\ read' = 0
          /\ read_result' \in {"eof", "wouldblock"}
          /\ wpc' = "read_server"
          /\ UNCHANGED <<buffer, client_in>>
       \/ \* any other error: break
          /\ read_result' = "error"
          /\ wpc' = "exited"
          /\ UNCHANGED <<buffer, read, client_in>>
    /\ filtered' = FALSE /\ write_buff' = <<>> /\ handed' = <<>>
    /\ sent' = <<>> /\ write_result' = "none"
    /\ UNCHANGED <<client_pid, dumpfile, dump, recording, server_out, server_in, client_out,
                   deny, startup_vars, filter_vars, accept_vars, main_vars>>

\* if read > 0 { ... } up to the call of write_all_nonblock: the test of
\* the PID vector, filter_buffer, the dump file
cml_handle_slice ==
    /\ wpc = "handle"
    /\ IF Poisoned
       THEN \* pid_vector.lock().unwrap() panics
            /\ wpc' = "panicked"
            /\ UNCHANGED <<filtered, write_buff, handed, dump>>
       ELSE LET filter_on == filter_on_for(pids, client_pid)
                fr == filter_buffer(Slice, deny)
            IN  /\ filtered' = filter_on
                /\ write_buff' = client_write_buff(filter_on, fr, Slice)
                /\ handed' = write_buff'
                /\ dump' = IF filter_on /\ dumpfile THEN buffer ELSE dump
                /\ wpc' = "write_server"
    /\ UNCHANGED <<client_pid, buffer, read, read_result, sent, write_result, dumpfile,
                   deny, startup_vars, filter_vars, accept_vars, main_vars, stream_vars>>

\* write_all_nonblock that returns Ok after the first write that wrote
\* some bytes
write_all_nonblock_once(at, next) ==
    /\ wpc = at
    /\ \/ /\ write_result' = "WriteZero" /\ wpc' = next
          /\ UNCHANGED <<write_buff, sent>>
       \/ \E n \in 1..Len(write_buff) :
             /\ sent' = sent \o Take(write_buff, n)
             /\ write_buff' = Drop(write_buff, n)
             /\ write_result' = "Ok" /\ wpc' = next
       \/ /\ write_buff # <<>>
          /\ wpc' = at \o "_wait"
          /\ UNCHANGED <<write_buff, sent, write_result>>
       \/ /\ write_result' = "Err" /\ wpc' = next
          /\ UNCHANGED <<write_buff, sent>>

\* One pass of the loop of write_all_nonblock, called at wpc = at and
\* followed by wpc = next.  self.write returns Ok(0), Ok(n), Interrupted,
\* WouldBlock or another error; a write of no bytes returns Ok(0) or an
\* error.  `sent` is what the stream has received from this call.
write_all_nonblock(at, next) ==
    /\ wpc = at
    /\ \/ \* Ok(0): Err(WriteZero)
          /\ write_result' = "WriteZero" /\ wpc' = next
          /\ UNCHANGED <<write_buff, sent>>
       \/ \* Ok(n): write_buff = &write_buff[n..], break when it is empty
          \E n \in 1..Len(write_buff) :
             /\ sent' = sent \o Take(write_buff, n)
             /\ write_buff' = Drop(write_buff, n)
             /\ IF n = Len(write_buff)
                THEN write_result' = "Ok" /\ wpc' = next
                ELSE UNCHANGED <<write_result, wpc>>
       \/ \* Interrupted: try again
          /\ write_buff # <<>>
          /\ UNCHANGED <<write_buff, sent, write_result, wpc>>
       \/ \* WouldBlock: select_on_vec(stream and child_fd, Writers)
          /\ write_buff # <<>>
          /\ wpc' = at \o "_wait"
          /\ UNCHANGED <<write_buff, sent, write_result>>
       \/ \* any other error: return Err(e)
          /\ write_result' = "Err" /\ wpc' = next
          /\ UNCHANGED <<write_buff, sent>>

\* the sets of the select_on_vec of write_all_nonblock: self, the stream
\* the call writes to, and child_stderr_fd, as Writers
write_select(at) ==
    select_on_vec(<<IF at = "write_server" THEN "server" ELSE "client", child_fd>>,
                  "Writers")

\* the select_on_vec of write_all_nonblock returns: Ok, try the write
\* again; Err, return Err(WouldBlock)
write_all_nonblock_wake(at, next) ==
    /\ wpc = at \o "_wait"
    /\ \/ /\ select_returns(write_select(at))
          /\ wpc' = at /\ UNCHANGED write_result
       \/ wpc' = next /\ write_result' = "Err"
    /\ UNCHANGED <<write_buff, sent>>

\* server_stream.write_all_nonblock(&write_buff, &child_stderr_fd); its
\* error is logged and the loop goes on
cml_write_server ==
    /\ \/ write_all_nonblock("write_server", "read_server")
       \/ write_all_nonblock_wake("write_server", "read_server")
    /\ server_out' = Record(server_out, Drop(sent', Len(sent)))
    /\ UNCHANGED <<client_pid, buffer, read, read_result, filtered, handed, dumpfile, dump,
                   recording, client_in, server_in, client_out,
                   deny, startup_vars, filter_vars, accept_vars, main_vars>>

\* let read = match server_stream.read(&mut buffer)
cml_read_server ==
    /\ wpc = "read_server"
    /\ \/ \* Ok(size), size > 0
          /\ \E s \in ServerSlices :
               /\ Room(server_in, s)
               /\ server_in' = Record(server_in, s)
               /\ buffer' = ReadInto(s)
               /\ read' = Len(s)
               /\ write_buff' = server_write_buff(s)
               /\ handed' = write_buff'
          /\ read_result' = "data"
          /\ wpc' = "write_client"
       \/ \* Ok(0) (the peer closed the stream) or WouldBlock: read = 0
          /\ read' = 0
          /\ read_result' \in {"eof", "wouldblock"}
          /\ wpc' = "select"
          /\ write_buff' = <<>> /\ handed' = <<>>
          /\ UNCHANGED <<buffer, server_in>>
       \/ \* any other error: break
          /\ read_result' = "error"
          /\ wpc' = "exited"
          /\ write_buff' = <<>> /\ handed' = <<>>
          /\ UNCHANGED <<buffer, read, server_in>>
    /\ sent' = <<>> /\ write_result' = "none"
    /\ UNCHANGED <<client_pid, filtered, dumpfile, dump,
                   recording, client_in, server_out, client_out,
                   deny, startup_vars, filter_vars, accept_vars, main_vars>>

\* client_stream.write_all_nonblock(&write_buff, &child_stderr_fd)
cml_write_client ==
    /\ \/ write_all_nonblock("write_client", "select")
       \/ write_all_nonblock_wake("write_client", "select")
    /\ client_out' = Record(client_out, Drop(sent', Len(sent)))
    /\ UNCHANGED <<client_pid, buffer, read, read_result, filtered, handed, dumpfile, dump,
                   recording, client_in, server_out, server_in,
                   deny, startup_vars, filter_vars, accept_vars, main_vars>>

\* select_streams(&client_stream, &server_stream, child_stderr_fd, Readers)
cml_select ==
    /\ wpc = "select"
    /\ \/ /\ select_returns(select_on_vec(<<"client", "server", child_fd>>, "Readers"))
          /\ wpc' = "read_client"
       \/ wpc' = "exited"
    /\ UNCHANGED <<client_pid, buffer, read, read_result, filtered, write_buff, handed, sent,
                   write_result, dumpfile, dump,
                   deny, startup_vars, filter_vars, accept_vars, main_vars, stream_vars>>

----------------------------------------------------------------------------
(* socketloop.rs: the main thread, run_unix_socket_loop *)

\* the far end of child_fd closes: the spawned child exits and its stderr
\* closes with it, or the supervisor closes the control socket
child_exits ==
    /\ ~child_gone
    /\ child_gone' = TRUE
    /\ UNCHANGED <<mpc, deny, startup_vars, filter_vars, accept_vars, worker_vars, stream_vars>>

\* the thread of accept_loop has ended, by a return or by a panic
accept_thread_ended == apc \in {"exited", "panicked"}

\* match client_handle: child.wait() returns when the child has exited;
\* thread.join() returns, Ok or Err, when the accept thread has ended
\* a main thread that returns without waiting
main_returns_early ==
    /\ mpc # "returned"
    /\ mpc' = "returned"
    /\ UNCHANGED <<child_gone, deny, startup_vars, filter_vars, accept_vars, worker_vars, stream_vars>>

main_returns ==
    /\ \/ mpc = "wait" /\ child_gone
       \/ mpc = "join" /\ accept_thread_ended
    /\ mpc' = "returned"
    /\ UNCHANGED <<child_gone, deny, startup_vars, filter_vars, accept_vars, worker_vars, stream_vars>>

----------------------------------------------------------------------------
(* socket.rs: the startup of a proxy, setup_unix_socket *)

\* const X11_SOCKET_DIR; a path is the sequence of this directory and the
\* characters of a file name
X11_SOCKET_DIR == "/tmp/.X11-unix/"

Digits == <<"0", "1", "2", "3", "4", "5", "6", "7", "8", "9">>

IsDigit(c) == \E d \in 1..10 : Digits[d] = c

DigitVal(c) == (CHOOSE d \in 1..10 : Digits[d] = c) - 1

MaxOf(S) == CHOOSE x \in S : \A y \in S : y <= x

\* format!("{}", n) of a number
RECURSIVE to_string(_)
to_string(n) ==
    IF n < 10 THEN <<Digits[n + 1]>>
    ELSE to_string(n \div 10) \o <<Digits[(n % 10) + 1]>>

RECURSIVE ParseDigits(_)
ParseDigits(s) ==
    IF s = <<>> THEN 0
    ELSE 10 * ParseDigits(Take(s, Len(s) - 1)) + DigitVal(s[Len(s)])

\* str::parse::<usize>() and str::parse::<pid_t>() of digits: -1 is Err
parse(s) ==
    IF s = <<>> \/ \E i \in 1..Len(s) : ~IsDigit(s[i]) THEN -1
    ELSE ParseDigits(s)

\* str::rfind(c): the last position of c, 0 is None
rfind(s, c) ==
    LET at == { i \in 1..Len(s) : s[i] = c }
    IN  IF at = {} THEN 0 ELSE MaxOf(at)

\* format!("{}{}{}", X11_SOCKET_DIR, 'X', n)
socket_name(n) == <<X11_SOCKET_DIR, "X">> \o to_string(n)

\* the file name in /tmp/.X11-unix/ of a path of that directory
file_name(path) == Drop(path, 1)

\* whether a file exists at the path
Exists(path, dir) ==
    /\ path # <<>> /\ path[1] = X11_SOCKET_DIR
    /\ file_name(path) \in dir

\* nix::unistd::getpid() of a proxy
getpid(p) == 20 + p

\* the processes of other sessions that are alive, and the PIDs the
\* registry can name
LivePeers == {8}

\* libc::kill(pid, 0) == 0: the process is a live peer or a proxy that
\* has not ended
alive(pid, pcs) ==
    \/ pid \in LivePeers
    \/ \E p \in Procs : getpid(p) = pid /\ pcs[p] \notin {"panicked", "failed"}

\* the lines a registry holds when the proxies start: the line of a dead
\* proxy, the line of a live one, a line of one token, a line whose first
\* token is no PID
RegistryLines ==
    { << <<"7">>, socket_name(1) >>,
      << <<"8">>, socket_name(2) >>,
      << <<"#">> >>,
      << <<"p">>, socket_name(1) >> }

RECURSIVE SeqsUpTo(_, _)
SeqsUpTo(S, n) ==
    IF n = 0 THEN { <<>> }
    ELSE LET shorter == SeqsUpTo(S, n - 1)
         IN  shorter \cup { Append(q, x) : q \in shorter, x \in S }

\* the file names /tmp/.X11-unix/ holds when the proxies start: sockets of
\* X servers and proxies, and a file that is no X<n>
DirNames ==
    { file_name(socket_name(0)), file_name(socket_name(1)),
      file_name(socket_name(2)), <<"X", "0", ".", "o", "l", "d">> }

\* enumerate_unix_x11_sockets: the screen number of a directory entry, -1
\* where rfind('X').unwrap() or parse::<usize>().unwrap() panics
screen_num(name) ==
    LET x_pos == rfind(name, "X")
    IN  IF x_pos = 0 THEN -1 ELSE parse(Drop(name, x_pos))

enumerate_panics(dir) == \E name \in dir : screen_num(name) = -1

enumerate_unix_x11_sockets(dir) == { screen_num(name) : name \in dir }

\* setup_unix_socket: existing_servers.iter().max(), idx + 1 or 0
free_server_num(existing_servers) ==
    IF existing_servers = {} THEN 0 ELSE MaxOf(existing_servers) + 1

\* cleanup_old_sockets: the for loop over the lines read, `kept` being
\* lines_not_cleaned and `dir` the directory so far.  A line of fewer than
\* two tokens ends the loop; a line whose PID does not parse is skipped; the
\* socket of a dead process is removed, and its line is kept when
\* remove_file fails with an error other than NotFound (`denied`).
RECURSIVE cleanup_lines(_, _, _, _, _)
cleanup_lines(lines, kept, dir, denied, pcs) ==
    IF lines = <<>> THEN [kept |-> kept, dir |-> dir]
    ELSE LET line == Head(lines)
         IN  IF Len(line) < 2 THEN [kept |-> kept, dir |-> dir]
             ELSE LET pid == parse(line[1])
                      socket_path == line[2]
                  IN  IF pid = -1
                      THEN cleanup_lines(Tail(lines), kept, dir, denied, pcs)
                      ELSE IF alive(pid, pcs)
                      THEN cleanup_lines(Tail(lines), Append(kept, line), dir,
                                         denied, pcs)
                      ELSE IF ~Exists(socket_path, dir)
                      THEN cleanup_lines(Tail(lines), kept, dir, denied, pcs)
                      ELSE IF denied
                      THEN cleanup_lines(Tail(lines), Append(kept, line), dir,
                                         denied, pcs)
                      ELSE cleanup_lines(Tail(lines), kept,
                                         dir \ {file_name(socket_path)},
                                         denied, pcs)

\* flock(fd, LockExclusive) returns Ok once no other proxy holds the lock,
\* or fails, which is only warned about
flock(p) ==
    \/ /\ lock = 0
       /\ lock' = p
       /\ locked' = [locked EXCEPT ![p] = TRUE]
    \/ /\ locked' = [locked EXCEPT ![p] = FALSE]
       /\ UNCHANGED lock

\* the file is closed: a lock held on it is released
close(p) == lock' = IF lock = p THEN 0 ELSE lock

relay_vars == <<deny, filter_vars, accept_vars, main_vars, worker_vars, stream_vars>>

\* cleanup_old_sockets: open and flock.  A failed open returns Err, which
\* setup_unix_socket warns about.
cleanup_old_sockets_open(p) ==
    /\ spc[p] = "start"
    /\ \/ /\ flock(p)
          /\ spc' = [spc EXCEPT ![p] = "scan"]
       \/ /\ spc' = [spc EXCEPT ![p] = "enumerate"]
          /\ UNCHANGED <<lock, locked>>
    /\ UNCHANGED <<registry, x11dir, original_server_num, file_read,
                   lines_not_cleaned, conn, relay_vars>>

\* cleanup_old_sockets: the lines of the file are read, the owners probed
\* and the sockets of the dead ones removed
cleanup_old_sockets_scan(p) ==
    /\ spc[p] = "scan"
    /\ \E denied \in BOOLEAN :
         LET r == cleanup_lines(registry, <<>>, x11dir, denied, spc)
         IN  /\ lines_not_cleaned' = [lines_not_cleaned EXCEPT ![p] = r.kept]
             /\ x11dir' = r.dir
    /\ file_read' = [file_read EXCEPT ![p] = registry]
    /\ spc' = [spc EXCEPT ![p] = "rewrite"]
    /\ UNCHANGED <<registry, lock, original_server_num, locked, conn, relay_vars>>

\* cleanup_old_sockets: seek(0), set_len(0), the lines not cleaned are
\* written, the file is closed
cleanup_old_sockets_rewrite(p) ==
    /\ spc[p] = "rewrite"
    /\ registry' = lines_not_cleaned[p]
    /\ close(p)
    /\ spc' = [spc EXCEPT ![p] = "enumerate"]
    /\ UNCHANGED <<x11dir, original_server_num, locked, file_read,
                   lines_not_cleaned, conn, relay_vars>>

\* setup_unix_socket from enumerate_unix_x11_sockets to the names of the
\* SocketConnection
setup_unix_socket(p) ==
    /\ spc[p] = "enumerate"
    /\ IF enumerate_panics(x11dir)
       THEN /\ spc' = [spc EXCEPT ![p] = "panicked"]
            /\ UNCHANGED conn
       ELSE LET n == free_server_num(enumerate_unix_x11_sockets(x11dir))
            IN  /\ conn' = [conn EXCEPT ![p] =
                              [client_display_name |-> <<":">> \o to_string(n),
                               client_socket_name |-> socket_name(n),
                               server_socket_name |->
                                   socket_name(original_server_num)]]
                /\ spc' = [spc EXCEPT ![p] = "register"]
    /\ UNCHANGED <<registry, x11dir, lock, original_server_num, locked,
                   file_read, lines_not_cleaned, relay_vars>>

\* register_socket_for_cleanup: open and flock.  A failed open returns
\* Err, which setup_unix_socket warns about.
register_socket_for_cleanup_open(p) ==
    /\ spc[p] = "register"
    /\ \/ /\ flock(p)
          /\ spc' = [spc EXCEPT ![p] = "append"]
       \/ /\ spc' = [spc EXCEPT ![p] = "bind"]
          /\ UNCHANGED <<lock, locked>>
    /\ UNCHANGED <<registry, x11dir, original_server_num, file_read,
                   lines_not_cleaned, conn, relay_vars>>

\* register_socket_for_cleanup: writeln!(writer, "{} {}", getpid(),
\* filename), the file is closed
register_socket_for_cleanup(p) ==
    /\ spc[p] = "append"
    /\ registry' = Append(registry,
                          <<to_string(getpid(p)), conn[p].client_socket_name>>)
    /\ close(p)
    /\ spc' = [spc EXCEPT ![p] = "bind"]
    /\ UNCHANGED <<x11dir, original_server_num, locked, file_read,
                   lines_not_cleaned, conn, relay_vars>>

\* SocketConnection::listen_socket: UnixListener::bind(&client_socket_name)
\* creates the socket file, or fails when the path exists and returns None
listen_socket(p) ==
    /\ spc[p] = "bind"
    /\ IF Exists(conn[p].client_socket_name, x11dir)
       THEN /\ spc' = [spc EXCEPT ![p] = "failed"]
            /\ UNCHANGED x11dir
       ELSE /\ x11dir' = x11dir \cup {file_name(conn[p].client_socket_name)}
            /\ spc' = [spc EXCEPT ![p] = "listening"]
    /\ UNCHANGED <<registry, lock, original_server_num, locked, file_read,
                   lines_not_cleaned, conn, relay_vars>>

\* The proxies of one user start: any registry of at most MaxLines lines,
\* any directory in which the socket of the live peer exists, any upstream
\* display.  No relay runs yet.
InitRegistry ==
    /\ deny = {}
    /\ FilterIdle
    /\ child_fd = "control" /\ apc = "idle" /\ pids = <<>>
    /\ recvd = [kind |-> "none"] /\ accepted = "none"
    /\ mpc = "returned" /\ child_gone = FALSE
    /\ wpc = "none" /\ client_pid = 0 /\ buffer = <<>> /\ read = 0
    /\ read_result = "none"
    /\ filtered = FALSE
    /\ write_buff = <<>> /\ handed = <<>> /\ sent = <<>>
    /\ write_result = "none"
    /\ dumpfile = FALSE /\ dump = <<>>
    /\ StreamsIdle
    /\ registry \in SeqsUpTo(RegistryLines, MaxLines)
    /\ x11dir \in SUBSET DirNames
    /\ \A i \in 1..Len(registry) :
         (Len(registry[i]) = 2 /\ parse(registry[i][1]) \in LivePeers)
             => Exists(registry[i][2], x11dir)
    /\ lock = 0
    /\ original_server_num \in 0..MaxDisplay
    /\ spc = [p \in Procs |-> "start"]
    /\ locked = [p \in Procs |-> FALSE]
    /\ file_read = [p \in Procs |-> <<>>]
    /\ lines_not_cleaned = [p \in Procs |-> <<>>]
    /\ conn = [p \in Procs |-> NoConn]

NextRegistry ==
    \/ \E p \in Procs : cleanup_old_sockets_open(p)
    \/ \E p \in Procs : cleanup_old_sockets_scan(p)
    \/ \E p \in Procs : cleanup_old_sockets_rewrite(p)
    \/ \E p \in Procs : setup_unix_socket(p)
    \/ \E p \in Procs : register_socket_for_cleanup_open(p)
    \/ \E p \in Procs : register_socket_for_cleanup(p)
    \/ \E p \in Procs : listen_socket(p)

RegistrySpec == InitRegistry /\ [][NextRegistry]_vars

----------------------------------------------------------------------------
(* The proxy: main thread, accept thread and one worker *)

\* run_unix_socket_loop is entered, with a spawned child or driven by a
\* supervisor, and without a dump file (WorkerSpec has the worker with one)
Init ==
    /\ deny = {}
    /\ FilterIdle
    /\ child_fd \in {"stderr", "control"}
    /\ apc = "recv" /\ pids = <<>> /\ recvd = [kind |-> "none"] /\ accepted = "none"
    /\ mpc = (IF child_fd = "stderr" THEN "wait" ELSE "join")
    /\ child_gone = FALSE
    /\ wpc = "none" /\ client_pid = 0 /\ buffer = <<>> /\ read = 0
    /\ read_result = "none"
    /\ filtered = FALSE
    /\ write_buff = <<>> /\ handed = <<>> /\ sent = <<>>
    /\ write_result = "none"
    /\ dumpfile = FALSE /\ dump = <<>>
    /\ StreamsIdle
    /\ StartupIdle

Next ==
    \/ child_exits
    \/ main_returns
    \/ try_receive_pids
    \/ accept_client
    \/ handle_client
    \/ accept_select
    \/ cml_read_client
    \/ cml_handle_slice
    \/ cml_write_server
    \/ cml_read_server
    \/ cml_write_client
    \/ cml_select

Spec == Init /\ [][Next]_vars

\* the steps of the three threads
MainThread == main_returns
AcceptThread == try_receive_pids \/ accept_client \/ handle_client \/ accept_select
Worker ==
    \/ cml_read_client \/ cml_handle_slice \/ cml_write_server
    \/ cml_read_server \/ cml_write_client \/ cml_select

\* One connection, observed: a worker as handle_client spawns it, for a
\* client of any peer PID that is or is not in the PID vector, with the
\* histories of its two streams kept.
InitRelay ==
    /\ deny = {}
    /\ FilterIdle
    /\ child_fd = "control" /\ apc = "select"
    /\ client_pid \in Pids
    /\ pids \in {<<>>, <<client_pid>>}
    /\ recvd = [kind |-> "none"] /\ accepted = "Ok"
    /\ mpc = "join" /\ child_gone = FALSE
    /\ wpc = "read_client"
    /\ buffer = [k \in 1..BufLen |-> 0] /\ read = 0
    /\ read_result = "none"
    /\ filtered = FALSE
    /\ write_buff = <<>> /\ handed = <<>> /\ sent = <<>>
    /\ write_result = "none"
    /\ dumpfile = FALSE /\ dump = <<>>
    /\ recording = TRUE
    /\ client_in = <<>> /\ server_out = <<>>
    /\ server_in = <<>> /\ client_out = <<>>
    /\ StartupIdle

RelaySpec == InitRelay /\ [][Worker]_vars

\* One connection, with or without a dump file: a worker as handle_client
\* spawns it, for a client of any peer PID that is or is not in the PID
\* vector.  The histories of the streams are not kept, so that slices of
\* any length follow each other.
InitWorker ==
    /\ deny = {}
    /\ FilterIdle
    /\ child_fd = "control" /\ apc = "select"
    /\ client_pid \in Pids
    /\ pids \in {<<>>, <<client_pid>>}
    /\ recvd = [kind |-> "none"] /\ accepted = "Ok"
    /\ mpc = "join" /\ child_gone = FALSE
    /\ wpc = "read_client"
    /\ buffer = [k \in 1..BufLen |-> 0] /\ read = 0
    /\ read_result = "none"
    /\ filtered = FALSE
    /\ write_buff = <<>> /\ handed = <<>> /\ sent = <<>>
    /\ write_result = "none"
    /\ dumpfile \in BOOLEAN /\ dump = <<>>
    /\ StreamsIdle
    /\ StartupIdle

WorkerSpec == InitWorker /\ [][Worker]_vars

\* the proxy with its threads scheduled fairly: a thread that can take a
\* step takes one
LiveSpec ==
    /\ Init /\ [][Next]_vars
    /\ WF_vars(MainThread) /\ WF_vars(AcceptThread) /\ WF_vars(Worker)

----------------------------------------------------------------------------
(* The relay worker and the PID set (Spec) *)

\* the worker goes from the test of the PID vector to the write upstream
HandlesSlice == wpc = "handle" /\ wpc' = "write_server"

\* C1: a client slice is passed through the filter if and only if the peer
\* PID of the connection is in the PID set at the moment the slice is
\* handled, and the slice of a non-member is handed to the upstream write
\* unchanged.
C1_FiltersIffMember ==
    [][HandlesSlice =>
         /\ filtered' <=> Contains(pids, client_pid)
         /\ ~Contains(pids, client_pid) => handed' = Slice]_vars

\* C2: for a connection whose peer PID is in the PID set when the slice is
\* handled, the bytes handed to the upstream write are exactly the accepted
\* output of filter_buffer for the slice, so that none of the rejected
\* output is written upstream.
C2_MemberUpstreamIsAccepted ==
    [][(HandlesSlice /\ Contains(pids, client_pid)) =>
         handed' = filter_buffer(Slice, deny).accept]_vars

\* the write to the client is in progress or has returned
ServerSliceWritten ==
    \/ wpc \in {"write_client", "write_client_wait"}
    \/ wpc = "select" /\ read > 0

\* C3: a slice read from the server is written to the client byte for byte,
\* whatever the PID set holds and whatever the peer PID is: the bytes handed
\* to the write are the slice, what the stream has received and what is
\* still to write make up the slice, and a write that returned Ok has
\* written all of it.
C3_ServerBytesVerbatim ==
    ServerSliceWritten =>
        /\ handed = Slice
        /\ sent \o write_buff = Slice
        /\ write_result = "Ok" => sent = Slice

\* a server slice the filter would cut has reached the client whole, on a
\* connection whose client slices the worker filters
C3_Witness ==
    /\ wpc = "select" /\ read > 0 /\ write_result = "Ok"
    /\ sent = Slice
    /\ filter_on_for(pids, client_pid)
    /\ filter_buffer(Slice, deny).accept # Slice

----------------------------------------------------------------------------
(* filter_buffer (FilterSpec, FilterOverrideSpec) *)

\* the bytes of the framed request f in the input
FrameBytes(f) == SubSeq(fbuf, f.off + 1, f.off + f.len)

\* the requests of fs that got verdict v, one after the other
RECURSIVE FramesBytes(_, _)
FramesBytes(fs, v) ==
    IF fs = <<>> THEN <<>>
    ELSE (IF Head(fs).verdict = v THEN FrameBytes(Head(fs)) ELSE <<>>)
         \o FramesBytes(Tail(fs), v)

\* the number of bytes of the input the framed requests take
Consumed ==
    IF frames = <<>> THEN 0
    ELSE frames[Len(frames)].off + frames[Len(frames)].len

\* the verdict of the policy for the framed request f
PolicyVerdict(f) == IF fbuf[f.off + 1] \in deny THEN "Denied" ELSE "Allowed"

\* C4: byte conservation, also under a policy that denies some requests.
\* The framed requests are contiguous slices of the input that follow each
\* other from its first byte; accepted is the allowed ones in order,
\* rejected is the denied ones in order, followed, once the filter has
\* stopped, by the bytes of the input that were not framed: each byte of the
\* input is in exactly one of the two, in the original order, each request
\* whole in the output of its verdict, and the lengths add up.
C4_ByteConservation ==
    fpc \in {"loop", "done"} =>
        /\ \A k \in 1..Len(frames) :
             /\ frames[k].off = IF k = 1 THEN 0
                                ELSE frames[k - 1].off + frames[k - 1].len
             /\ frames[k].len > 0
             /\ frames[k].off + frames[k].len <= Len(fbuf)
             /\ frames[k].verdict = PolicyVerdict(frames[k])
        /\ out_accept = FramesBytes(frames, "Allowed")
        /\ fpc = "loop" =>
             /\ out_reject = FramesBytes(frames, "Denied")
             /\ work = Drop(fbuf, Consumed)
        /\ fpc = "done" =>
             /\ out_reject = FramesBytes(frames, "Denied") \o Drop(fbuf, Consumed)
             /\ Len(out_accept) + Len(out_reject) = Len(fbuf)

\* the filter has returned after a denied request, an allowed one after it,
\* and bytes it could not frame
C4_Witness ==
    /\ fpc = "done"
    /\ \E j, k \in 1..Len(frames) :
         j < k /\ frames[j].verdict = "Denied" /\ frames[k].verdict = "Allowed"
    /\ Consumed < Len(fbuf)

\* C5: filter_buffer is idempotent on its accepted output: filtering the
\* accepted output of a call accepts all of it and rejects nothing.
C5_IdempotentOnAccepted ==
    fpc = "done" =>
        filter_buffer(out_accept, deny) = [accept |-> out_accept, reject |-> <<>>]

\* the call accepted a request in extended form and one in normal form, and
\* rejected the rest
C5_Witness ==
    /\ fpc = "done"
    /\ \E j, k \in 1..Len(frames) :
         /\ le_u16(FrameBytes(frames[j]), 2) = 0
         /\ le_u16(FrameBytes(frames[k]), 2) # 0
    /\ out_reject # <<>>

\* w is a proper prefix of a request: too few bytes for the header (4, or 8
\* in extended form), or fewer bytes than the header declares.  The unit
\* count of an extended header is one whose byte count fits 32 bits.
TruncatedRequest(w) ==
    /\ Len(w) > 0
    /\ \/ Len(w) < 4
       \/ Len(w) >= 4 /\ le_u16(w, 2) # 0 /\ 4 * le_u16(w, 2) > Len(w)
       \/ Len(w) \in 4..7 /\ le_u16(w, 2) = 0
       \/ /\ Len(w) >= 8 /\ le_u16(w, 2) = 0
          /\ LET u == le_u32(w, 4)
             IN  \/ u.hi \in 1..16383
                 \/ u.hi = 0 /\ u.lo >= 2 /\ 4 * u.lo > Len(w)

\* the framer stage of filter_buffer finds no complete request at w: the
\* parse fails, or the length it returns exceeds the bytes left
NotFramed(w) ==
    \/ request(w).tag = "Incomplete"
    \/ ~U32LeNat(request(w).length, Len(w))

\* C6: when the bytes left start with a proper prefix of a request, the
\* framer stage finds no complete request and the filter stops: the bytes
\* left all go to rejected, and accepted is exactly the requests framed
\* before (under the repository's policy, the input up to the partial
\* request).
C6_TruncatedTail ==
    [][(fpc = "loop" /\ TruncatedRequest(work)) =>
         /\ NotFramed(work)
         /\ fpc' = "done"
         /\ out_reject' = out_reject \o work
         /\ out_accept' = Take(fbuf, Len(fbuf) - Len(work))
         /\ out_accept' = FramesBytes(frames', "Allowed")]_vars

\* the filter has stopped at a partial request after accepting a request
C6_Witness ==
    /\ fpc = "done"
    /\ out_accept # <<>>
    /\ TruncatedRequest(out_reject)
    /\ out_accept \o out_reject = fbuf

\* the total length of the well-formed request w starts with, 0 if it
\* starts with none: 4 * the length field, or 4 * the unit count at bytes
\* 4-7 (at least 2 units) when the length field is zero, all of it present
WellFormedLength(w) ==
    IF Len(w) >= 4 /\ le_u16(w, 2) # 0
    THEN IF 4 * le_u16(w, 2) <= Len(w) THEN 4 * le_u16(w, 2) ELSE 0
    ELSE IF /\ Len(w) >= 8 /\ le_u16(w, 2) = 0
            /\ le_u32(w, 4).hi = 0 /\ le_u32(w, 4).lo >= 2
            /\ 4 * le_u32(w, 4).lo <= Len(w)
         THEN 4 * le_u32(w, 4).lo
         ELSE 0

\* C7: when the bytes left start with a well-formed request of total length
\* L, in either form, whatever follows it, the framer returns its opcode,
\* its data byte and L, and the filter advances by exactly L bytes, so that
\* framing goes on at the first byte after the request.
C7_FramesWellFormed ==
    [][(fpc = "loop" /\ WellFormedLength(work) > 0) =>
         LET L == WellFormedLength(work)
             req == request(work)
         IN  /\ req.tag = "Ok"
             /\ req.opcode = work[1]
             /\ req.datab = work[2]
             /\ req.length = NatU32(L)
             /\ fpc' = "loop"
             /\ work' = Drop(work, L)
             /\ Len(frames') = Len(frames) + 1
             /\ frames'[Len(frames')].off = Len(fbuf) - Len(work)
             /\ frames'[Len(frames')].len = L]_vars

\* a 12-byte request in extended form has been framed and framing goes on
\* at the bytes that follow it
C7_Witness ==
    /\ fpc = "loop"
    /\ Len(fbuf) > 12 /\ le_u16(fbuf, 2) = 0
    /\ Len(frames) = 1 /\ frames[1].len = 12
    /\ work = Drop(fbuf, 12)

\* C8: a header whose 16-bit length field is zero is decoded in the
\* extended form, and the request the framer returns for it has as its
\* total length 4 * the unit count at bytes 4-7, header included, with the
\* total - 8 bytes after the header as its body, and the filter consumes
\* exactly that many bytes.
C8_ExtendedLength ==
    [][(fpc = "loop" /\ Len(work) >= 4 /\ le_u16(work, 2) = 0
           /\ request(work).tag = "Ok") =>
         LET req == request(work)
             u == le_u32(work, 4)
         IN  /\ req.big
             /\ u.hi = 0
             /\ req.length = NatU32(4 * u.lo)
             /\ req.data = SubSeq(work, 9, 4 * u.lo)
             /\ work' = Drop(work, 4 * u.lo)]_vars

\* the framer stage of filter_buffer finds a complete request at w
CompletelyFramed(w) ==
    /\ request(w).tag = "Ok"
    /\ U32LeNat(request(w).length, Len(w))

\* C9: under the repository's policy every completely framed request,
\* whatever its opcode and whether or not its body decodes, gets the
\* verdict Allowed and its bytes are appended to accepted.
C9_BaselineAllows ==
    [][(fpc = "loop" /\ CompletelyFramed(work)) =>
         LET req == request(work)
             n == U32Nat(req.length)
         IN  /\ analyze_request_opcode(req, work) = "Allowed"
             /\ out_accept' = out_accept \o Take(work, n)
             /\ out_reject' = out_reject
             /\ frames'[Len(frames')].verdict = "Allowed"]_vars

\* accepted holds an InternAtom request whose decode failed and a request
\* of an opcode that has no decoder
C9_Witness ==
    /\ \E k \in 1..Len(frames) :
         /\ fbuf[frames[k].off + 1] = InternAtom
         /\ decode(InternAtom, Drop(fbuf, frames[k].off)).tag = "Incomplete"
    /\ \E k \in 1..Len(frames) : fbuf[frames[k].off + 1] \notin Opcode
    /\ out_accept = Take(fbuf, Consumed)

\* the framer stage finds a complete InternAtom request at w
CompleteInternAtom(w) == CompletelyFramed(w) /\ request(w).opcode = InternAtom

\* the InternAtom request at w is in normal form and long enough for the
\* 8 bytes before the name and the name its name_length declares
NameFits(w) ==
    /\ le_u16(w, 2) >= 2
    /\ 8 + le_u16(w, 4) <= 4 * le_u16(w, 2)

----------------------------------------------------------------------------
(* The control channel and the main thread (Spec) *)

\* the PIDs the vector v holds
Members(v) == {v[k] : k \in 1..Len(v)}

\* the vector v holds no PID twice
NoDuplicates(v) == \A j, k \in 1..Len(v) : j # k => v[j] # v[k]

\* try_receive_pids runs and recv returns a 5-byte message
ProcessesMessage == apc = "recv" /\ recvd'.kind = "msg"

\* C11: processing the message (cmd, pid) adds pid to the PID set when cmd
\* is 0, leaving the vector as it is when pid is already in it, so that it
\* never holds a PID twice; removes pid when cmd is 1, leaving the vector as
\* it is when pid is absent; and leaves the vector as it is for any other
\* cmd.  No other PID enters or leaves the set.
C11_ControlTransition ==
    [][ProcessesMessage =>
         LET cmd == recvd'.cmd
             pid == recvd'.pid
         IN  /\ cmd = 0 => Members(pids') = Members(pids) \cup {pid}
             /\ (cmd = 0 /\ pid \in Members(pids)) => pids' = pids
             /\ cmd = 1 => Members(pids') = Members(pids) \ {pid}
             /\ (cmd = 1 /\ pid \notin Members(pids)) => pids' = pids
             /\ cmd \notin {0, 1} => pids' = pids
             /\ NoDuplicates(pids')]_vars

\* a removal has just been processed and has left another PID in the set
C11_Witness ==
    /\ recvd.kind = "msg" /\ recvd.cmd = 1
    /\ pids # <<>>
    /\ ~Contains(pids, recvd.pid)

\* try_receive_pids runs and recv returns a length other than 5
ReceivesBadLength == apc = "recv" /\ recvd'.kind = "len"

\* try_receive_pids runs and recv fails with EWOULDBLOCK
ReceivesWouldBlock == apc = "recv" /\ recvd'.kind = "wouldblock"

\* C12: a receive of a length other than 5, 0 included, ends the accept
\* thread (on which the main thread of a proxy driven by a control fd
\* waits) and leaves the PID set as it is, for good; a receive that fails
\* with EWOULDBLOCK leaves the set as it is and the accept loop goes on to
\* accept().
C12_ProtocolViolation ==
    [][/\ ReceivesBadLength =>
            /\ recvd'.n # 5
            /\ apc' = "panicked" /\ accept_thread_ended'
            /\ pids' = pids
       /\ ReceivesWouldBlock => (pids' = pids /\ apc' = "accept")
       /\ apc = "panicked" => (apc' = "panicked" /\ pids' = pids)
       /\ (apc = "panicked" /\ mpc = "join") => ENABLED main_returns]_vars

\* the supervisor closed the control socket, recv returned 0, the accept
\* thread has ended with PIDs in the set, and the main thread has returned
C12_Witness ==
    /\ child_fd = "control" /\ child_gone
    /\ recvd.kind = "len" /\ recvd.n = 0
    /\ apc = "panicked"
    /\ pids # <<>>
    /\ mpc = "returned"

\* C20: with a spawned child the main thread waits for the child alone: it
\* can return as soon as the child has exited, whatever the accept thread
\* and the worker are doing, and returns only then.  Driven by a control
\* fd, the main thread returns only after the accept thread has ended.
C20_MainThreadTermination ==
    [][/\ (mpc = "wait" /\ mpc' = "returned") => child_gone
       /\ (mpc = "join" /\ mpc' = "returned") => accept_thread_ended
       /\ (mpc = "wait" /\ child_gone) => ENABLED main_returns
       /\ (mpc = "wait") <=> (child_fd = "stderr" /\ mpc # "returned")
       /\ (mpc = "join") <=> (child_fd = "control" /\ mpc # "returned")]_vars

\* the main thread has returned after the exit of the child while the
\* accept thread has not ended
C20_Witness ==
    /\ child_fd = "stderr" /\ child_gone
    /\ mpc = "returned"
    /\ ~accept_thread_ended

WorkerEnded == wpc \in {"exited", "panicked"}

\* C13: a worker whose read failed with an error other than would-block,
\* whose read returned 0 bytes from a closed stream, or whose write reported
\* write-zero, leaves its loop.
C13_WorkerTermination ==
    (\/ read_result \in {"error", "eof"}
     \/ write_result = "WriteZero") ~> WorkerEnded

\* C14: a worker in select when the liveness fd has become readable (the
\* child exited, or the supervisor closed the control socket) wakes and
\* eventually leaves its loop.
C14_LivenessUnblock ==
    (wpc = "select" /\ child_gone) ~> WorkerEnded

IsPrefix(a, b) == Len(a) <= Len(b) /\ a = Take(b, Len(a))

\* C19: on a connection whose client slices are not filtered, the bytes
\* the server stream has received are at every moment a prefix of the bytes
\* read from the client, and the bytes the client stream has received are
\* a prefix of the bytes read from the server.
C19_PerDirectionOrdering ==
    recording =>
        /\ ~filter_on_for(pids, client_pid) => IsPrefix(server_out, client_in)
        /\ IsPrefix(client_out, server_in)

----------------------------------------------------------------------------
(* The startup of concurrent proxies (RegistrySpec) *)

\* a registry line of a PID and a path
IsEntry(line) == Len(line) >= 2 /\ parse(line[1]) # -1

LiveEntry(line) == IsEntry(line) /\ alive(parse(line[1]), spc)

DeadEntry(line) == IsEntry(line) /\ ~alive(parse(line[1]), spc)

LiveEntries(lines) == SelectSeq(lines, LiveEntry)

Lines(reg) == { reg[i] : i \in 1..Len(reg) }

\* the cleanup of proxy p rewrites the registry
Rewrites(p) == spc[p] = "rewrite" /\ spc'[p] = "enumerate"

\* C15: the lines of live processes that the cleanup read are the lines of
\* live processes of the rewritten registry, in the same order, whatever
\* other lines the file holds.
C15_LivePeersKept ==
    [][\A p \in Procs :
         Rewrites(p) => LiveEntries(registry') = LiveEntries(file_read[p])]_vars

\* C16: for every line the cleanup read whose PID names no live process,
\* no socket is left at its path and the line is not in the rewritten
\* registry.
C16_DeadPeersReclaimed ==
    [][\A p \in Procs :
         Rewrites(p) =>
            \A i \in 1..Len(file_read[p]) :
               DeadEntry(file_read[p][i]) =>
                  /\ ~Exists(file_read[p][i][2], x11dir')
                  /\ file_read[p][i] \notin Lines(registry')]_vars

\* a file name of the form X<n>
IsXn(name) ==
    /\ Len(name) >= 2 /\ name[1] = "X"
    /\ \A i \in 2..Len(name) : IsDigit(name[i])

\* the numbers n of the X<n> entries of a directory
XNums(dir) == { parse(Drop(name, 1)) : name \in { m \in dir : IsXn(m) } }

\* 1 + the maximum n of the X<n> entries, 0 when there is none
Chosen(dir) == IF XNums(dir) = {} THEN 0 ELSE MaxOf(XNums(dir)) + 1

\* proxy p enumerates the directory and chooses its names
Enumerates(p) == spc[p] = "enumerate" /\ spc'[p] # "enumerate"

\* C17: the shadow number chosen is 1 + the maximum n of the X<n> entries
\* of the directory as the proxy finds it after its cleanup, 0 when there
\* is none; the shadow socket path is no entry of the directory and is not
\* the upstream socket path; the shadow DISPLAY is ":<chosen>".
C17_DisplayAllocation ==
    [][\A p \in Procs :
         Enumerates(p) =>
            /\ spc'[p] = "register"
            /\ conn'[p].client_socket_name = socket_name(Chosen(x11dir))
            /\ ~Exists(conn'[p].client_socket_name, x11dir)
            /\ conn'[p].client_socket_name # conn'[p].server_socket_name
            /\ conn'[p].client_display_name
                  = <<":">> \o to_string(Chosen(x11dir))]_vars

\* the line proxy p appends to the registry
OwnLine(p) == <<to_string(getpid(p)), conn[p].client_socket_name>>

\* C18: a proxy between its flock and the close of the registry holds the
\* lock; a cleanup rewrites the registry it read; and the line a live
\* proxy has appended is not removed from the registry.
C18_RegistryMutualExclusion ==
    [][/\ \A p \in Procs :
            spc'[p] \in {"scan", "rewrite", "append"} => lock' = p
       /\ \A p \in Procs : Rewrites(p) => registry = file_read[p]
       /\ \A p \in Procs :
            (spc[p] \in {"bind", "listening"} /\ OwnLine(p) \in Lines(registry))
                => OwnLine(p) \in Lines(registry')]_vars

----------------------------------------------------------------------------
(* filter_buffer: the lengths of the framed requests (FilterSpec) *)

\* the bytes left start with an extended header (length field zero, all 8
\* bytes present) whose unit count at bytes 4-7 is at least 2^30
HugeExtendedHeader(w) ==
    /\ Len(w) >= 8
    /\ le_u16(w, 2) = 0
    /\ le_u32(w, 4).hi >= 16384

\* C21: an extended header whose unit count is at least 2^30, so that
\* 4 * the count does not fit 32 bits, is malformed: the framer stage never
\* frames it as a request, and the filter stops there and puts it and all
\* the bytes after it in rejected.
C21_HugeExtendedRejected ==
    [][(fpc = "loop" /\ HugeExtendedHeader(work)) =>
         /\ NotFramed(work)
         /\ fpc' = "done"
         /\ Len(frames') = Len(frames)
         /\ out_accept' = out_accept
         /\ out_reject' = out_reject \o work]_vars

\* the bytes left start with an extended header (length field zero, all 8
\* bytes present) that declares fewer than 2 units
ShortExtendedHeader(w) ==
    /\ Len(w) >= 8
    /\ le_u16(w, 2) = 0
    /\ le_u32(w, 4).hi = 0
    /\ le_u32(w, 4).lo < 2

\* C22: every request a pass of the filter frames has a total length that
\* is the length the framer returned, a multiple of 4, at least 4 in the
\* normal form and at least 8 in the extended form, and at most the number
\* of bytes left; an extended header that declares fewer than 2 units is
\* never framed: the filter stops and its bytes go to rejected.
C22_FramedLengthInvariant ==
    [][fpc = "loop" =>
         /\ Len(frames') > Len(frames) =>
              LET f == frames'[Len(frames')]
              IN  /\ Len(frames') = Len(frames) + 1
                  /\ request(work).tag = "Ok"
                  /\ NatU32(f.len) = request(work).length
                  /\ f.len % 4 = 0
                  /\ f.len >= (IF le_u16(work, 2) = 0 THEN 8 ELSE 4)
                  /\ f.len <= Len(work)
                  /\ work' = Drop(work, f.len)
         /\ ShortExtendedHeader(work) =>
              /\ Len(frames') = Len(frames)
              /\ fpc' = "done"
              /\ out_reject' = out_reject \o work]_vars

\* the filter has framed two requests in the normal form and has stopped
\* at an extended header that declares 1 unit, whose bytes are in rejected
C22_Witness ==
    /\ fpc = "done"
    /\ Len(frames) = 2
    /\ \A k \in 1..2 : le_u16(FrameBytes(frames[k]), 2) # 0 /\ frames[k].len = 4
    /\ ShortExtendedHeader(out_reject)
    /\ le_u32(out_reject, 4).lo = 1

\* C28: under the repository's policy, which denies nothing, a call of
\* filter_buffer splits its input in two: accepted is a prefix of the
\* input, the requests framed, rejected is the rest of the input, and
\* accepted followed by rejected is the input; rejected is non-empty only
\* when the framer stage found no complete request at its first byte (an
\* incomplete or malformed request), where the filter stopped.
C28_BaselineSplit ==
    /\ deny = {}
    /\ fpc = "loop" =>
         /\ out_reject = <<>>
         /\ out_accept \o work = fbuf
    /\ fpc = "done" =>
         /\ out_accept \o out_reject = fbuf
         /\ out_accept = Take(fbuf, Consumed)
         /\ out_reject = Drop(fbuf, Consumed)
         /\ \A k \in 1..Len(frames) : frames[k].verdict = "Allowed"
         /\ out_reject # <<>> => NotFramed(out_reject)
         /\ filter_buffer(fbuf, deny) = [accept |-> out_accept, reject |-> out_reject]

\* the filter has returned with two requests in accepted and a malformed
\* request and the bytes after it in rejected
C28_Witness ==
    /\ fpc = "done"
    /\ Len(frames) = 2
    /\ out_accept # <<>>
    /\ Len(out_reject) >= 8
    /\ request(out_reject).tag = "Incomplete"

----------------------------------------------------------------------------
(* write_all_nonblock (WorkerSpec, LiveSpec) *)

\* the worker is in a call of write_all_nonblock, writing or parked in the
\* select_on_vec that follows a WouldBlock
WriteCall ==
    wpc \in {"write_server", "write_server_wait", "write_client", "write_client_wait"}

\* C23: write_all_nonblock delivers completely or fails.  At every step of
\* a call the bytes the stream has received, followed by the bytes still to
\* write, are the slice it was given: a partial write appends the next
\* bytes in order, an Interrupted or WouldBlock result writes nothing and
\* the call goes on.  The call returns Ok only by a write that completes
\* the slice, a write that returns Ok(0) makes it return the write-zero
\* error, and it returns no other way than with an error.
C23_WriteAllOrFail ==
    [][WriteCall =>
         /\ sent \o write_buff = handed
         /\ handed' = handed
         /\ sent' \o write_buff' = handed
         /\ IsPrefix(sent, sent')
         /\ write_result = "none"
         /\ WriteCall' => write_result' = "none"
         /\ ~WriteCall' =>
              /\ write_result' \in {"Ok", "WriteZero", "Err"}
              /\ write_result' = "Ok" <=>
                   Len(sent') > Len(sent) /\ sent' = handed /\ write_buff' = <<>>
              /\ write_result' = "WriteZero" => sent' = sent]_vars

\* a call for a slice of 5 bytes has returned Ok with all of them written
C23_Witness ==
    /\ wpc = "read_server"
    /\ write_result = "Ok"
    /\ Len(handed) = 5
    /\ sent = handed
    /\ write_buff = <<>>

\* the worker is parked in the select_on_vec of write_all_nonblock
WriteParked == wpc \in {"write_server_wait", "write_client_wait"}

\* the sets of the select the parked worker waits in, and the stream it
\* writes to
ParkedSelect ==
    write_select(IF wpc = "write_server_wait" THEN "write_server" ELSE "write_client")

ParkedStream == IF wpc = "write_server_wait" THEN "server" ELSE "client"

\* C24: while write_all_nonblock is parked after a WouldBlock, its select
\* waits for the stream to become writable and for the liveness fd to
\* become readable, and once the far end of the liveness fd has closed the
\* parked worker wakes and eventually leaves its loop.
C24_LivenessWakesParkedWrite ==
    /\ [](WriteParked =>
            /\ ParkedStream \in ParkedSelect.w_fdset
            /\ child_fd \in ParkedSelect.r_fdset)
    /\ (WriteParked /\ child_gone) ~> WorkerEnded

----------------------------------------------------------------------------
(* accept_loop (Spec) *)

\* the poll of a pass: at most one PID message is applied, a would-block
\* changes nothing, anything else ends the thread by a panic
PollStep ==
    /\ accepted' = "none"
    /\ \/ /\ apc' = "accept" /\ recvd'.kind = "msg"
          /\ pids' = process_pid_message(recvd'.cmd, recvd'.pid, pids)
       \/ /\ apc' = "accept" /\ recvd'.kind = "wouldblock"
          /\ pids' = pids
       \/ /\ apc' = "panicked"
          /\ pids' = pids

\* the one accept of a pass: Ok goes to handle_client, would-block to the
\* select with no worker created, any other error ends the thread
AcceptStep ==
    /\ pids' = pids
    /\ wpc' = wpc
    /\ \/ accepted' = "Ok" /\ apc' = "handle_client"
       \/ accepted' = "WouldBlock" /\ apc' = "select"
       \/ accepted' = "Err" /\ apc' = "exited"

\* a worker is created, at the start of client_message_loop
WorkerSpawned == wpc = "none" /\ wpc' = "read_client"

\* the steps of the accept thread other than handle_client
AcceptLoopSteps ==
    /\ apc = "recv" /\ apc' # apc => PollStep
    /\ apc = "accept" /\ apc' # apc => AcceptStep
    /\ apc = "select" /\ apc' # apc => apc' \in {"recv", "exited"} /\ pids' = pids
    /\ apc \in {"exited", "panicked"} => apc' = apc
    /\ wpc = "none" /\ wpc' # "none" => apc = "handle_client" /\ WorkerSpawned

\* C25: the protocol of the accept loop.  Every pass first polls the
\* control channel, applying at most one pending PID message, then tries
\* one accept; a would-block goes on to the select and the next pass, a
\* successful accept hands the stream to a fresh worker with its own new
\* upstream connection, and any other accept error ends the thread.
C25_AcceptLoopProtocol ==
    [][/\ AcceptLoopSteps
       /\ apc = "handle_client" /\ apc' # apc =>
            /\ accepted = "Ok"
            /\ apc' = "select"
            /\ WorkerSpawned]_vars

\* C25 as the code has it: a successful accept hands the stream to a fresh
\* worker when the upstream connection of handle_client can be made; when
\* it cannot, no worker is created, the stream is dropped and the loop goes
\* on to the select as after a would-block.
C25_AcceptLoopProtocolUpstream ==
    [][/\ AcceptLoopSteps
       /\ apc = "handle_client" /\ apc' # apc =>
            /\ accepted = "Ok"
            /\ apc' = "select"
            /\ WorkerSpawned \/ UNCHANGED worker_vars]_vars

\* a pass has applied a PID message and its accept has handed a stream to
\* a worker, which has started; the thread is in the select
C25_Witness ==
    /\ apc = "select"
    /\ accepted = "Ok"
    /\ pids # <<>>
    /\ wpc = "read_client"

----------------------------------------------------------------------------
(* The dump file and the slices of the worker (WorkerSpec) *)

\* C26: when a dump file is configured, what the worker writes to it for a
\* client slice that it filters is exactly the rejected output of
\* filter_buffer for that slice: none of the accepted bytes, and no byte of
\* `buffer` beyond the slice just read.
C26_DumpIsRejected ==
    [][(wpc = "handle" /\ wpc' = "write_server" /\ filtered' /\ dumpfile) =>
         dump' = filter_buffer(Slice, deny).reject]_vars

\* the bytes of the requests of fs that got verdict v, taken from s
RECURSIVE FramesBytesOf(_, _, _)
FramesBytesOf(s, fs, v) ==
    IF fs = <<>> THEN <<>>
    ELSE (IF Head(fs).verdict = v
          THEN SubSeq(s, Head(fs).off + 1, Head(fs).off + Head(fs).len)
          ELSE <<>>)
         \o FramesBytesOf(s, Tail(fs), v)

\* C29: filter_buffer carries no framing state from one call to the next.
\* Each client slice the worker filters is framed from its first byte: what
\* the worker hands to the server stream is the accepted output of
\* filter_buffer for the bytes of this read alone, whatever the slices before
\* it were and whatever they left in `buffer`; the bytes a call could not
\* frame, a partial request at the end of the slice among them, are its
\* rejected output and are not handed on, neither now nor with a later
\* slice.
C29_SliceFramedAlone ==
    [][(wpc = "handle" /\ wpc' = "write_server" /\ filtered') =>
         LET s == SubSeq(buffer, 1, read)
             st == filter_run(s, filter_start(s), deny)
         IN  /\ st.pc = "done"
             /\ handed' = st.accept
             /\ write_buff' = st.accept
             /\ st.accept = FramesBytesOf(s, st.frames, "Allowed")
             /\ st.frames # <<>> => st.frames[1].off = 0
             /\ Len(st.accept) + Len(st.reject) = read
             /\ (deny = {}) => st.accept \o st.reject = s]_vars

\* the worker filters a slice of 3 bytes that follows a slice of 5 bytes
\* which ended with the first byte of a request: that byte is still in
\* `buffer` behind the new slice, and nothing of the new slice is handed on
C29_Witness ==
    /\ wpc = "write_server"
    /\ filtered
    /\ read = 3
    /\ SubSeq(buffer, 4, 5) = <<0, 65>>
    /\ handed = <<>>

----------------------------------------------------------------------------
(* The poll of the accept loop with a spawned child (Spec) *)

\* C30: when the proxy spawned its own child, so that child_fd is the
\* child's stderr pipe, the poll for PID updates of the accept loop never
\* ends the accept thread: after every poll the thread goes on to the
\* accept, and it ends only by an error of the accept or of the select.
C30_StandalonePollGoesOn ==
    [][child_fd = "stderr" =>
         /\ apc = "recv" /\ apc' # apc => apc' = "accept" /\ pids' = pids
         /\ apc' # "panicked"]_vars

----------------------------------------------------------------------------
(* The registry lines and the sockets of live proxies (RegistrySpec) *)

\* the registry has a line of the PID of proxy p for path
HasLine(p, path) ==
    \E i \in 1..Len(registry) :
        /\ Len(registry[i]) >= 2
        /\ registry[i][1] = to_string(getpid(p))
        /\ registry[i][2] = path

\* proxy p has bound path and listens on it
Listens(p, path) == spc[p] = "listening" /\ conn[p].client_socket_name = path

\* C27: the cleanup of a starting proxy never unlinks a socket path on
\* which another live proxy listens, in any interleaving of the startups:
\* the socket file of every listening proxy exists, and the registry has a
\* line of a proxy's PID only for a path that this proxy has bound (the
\* line is appended after the bind).
C27_ListeningSocketsKept ==
    /\ \A p \in Procs :
         spc[p] = "listening" => Exists(conn[p].client_socket_name, x11dir)
    /\ \A p \in Procs : \A n \in 0..(MaxDisplay + NProc + 2) :
         HasLine(p, socket_name(n)) => Listens(p, socket_name(n))

----------------------------------------------------------------------------
(* write_all_nonblock with an empty slice (WorkerSpec) *)

\* the worker calls server_stream.write_all_nonblock with the empty slice
\* that filter_buffer accepted from a non-empty client slice
EmptyFilteredWrite ==
    /\ wpc = "write_server"
    /\ filtered
    /\ read > 0
    /\ handed = <<>>

\* C31: write_all_nonblock called with an empty slice, as when the filter
\* accepted nothing of a non-empty client slice, returns Ok: a slice that is
\* rejected whole is not reported as a write-zero failure of the server
\* stream (the call fails only if the write itself returns an error).
C31_EmptyWriteIsOk ==
    [][(EmptyFilteredWrite /\ wpc' # wpc) =>
         /\ write_result' # "WriteZero"
         /\ write_result' \in {"Ok", "Err"}]_vars

----------------------------------------------------------------------------
(* The termination of filter_buffer (FilterLiveSpec) *)

\* C32: filter_buffer terminates on every input.  An iteration of its loop
\* either stops the framing, leaving the work buffer as it is, or goes on
\* at a suffix of the work buffer that is at least 4 bytes shorter; with
\* the work buffer exhausted the iteration stops, although the loop tests
\* the length of the input; on the empty input both outputs are empty; and
\* every call returns.
C32_FilterTerminates ==
    /\ [][fpc = "loop" =>
            /\ \/ fpc' = "done" /\ work' = work
               \/ /\ fpc' = "loop"
                  /\ Len(work') + 4 <= Len(work)
                  /\ work' = Drop(work, Len(work) - Len(work'))
            /\ work = <<>> => fpc' = "done" /\ out_accept' = out_accept
                              /\ out_reject' = out_reject
            /\ fbuf = <<>> => out_accept' = <<>> /\ out_reject' = <<>>]_vars
    /\ [](fpc = "done" => filter_buffer(fbuf, deny)
                             = [accept |-> out_accept, reject |-> out_reject])
    /\ (fpc = "loop") ~> (fpc = "done")

\* the call has returned for an input of two complete requests: all of it
\* is accepted and the work buffer is exhausted
C32_Witness ==
    /\ fpc = "done"
    /\ Len(frames) = 2
    /\ work = <<>>
    /\ out_accept = fbuf
    /\ out_reject = <<>>

====
